---- MODULE Spec2Model ----
(***************************************************************************)
(* A model of src/src/processor.py: the Processor that fetches message     *)
(* metadata in batches, classifies errors, retries whole calls with        *)
(* backoff, retries failed ids in rounds, and caches the result on disk.   *)
(*                                                                         *)
(* A message record is modelled by its id (the header fields play no role  *)
(* in the control flow).  A deque is a sequence.  One step of the model is *)
(* one invocation of a remote call together with everything the code does  *)
(* with the answer before the next remote call.                            *)
(***************************************************************************)
EXTENDS Integers, Sequences, FiniteSets, TLC

(***************************************************************************)
(* Bounds of the model.                                                    *)
(***************************************************************************)
\* ids 1..MaxIds get an independent outcome in every batched call
MaxIds == 2
\* ids that an earlier run may have left in the metadata cache
MaxCached == 1
\* largest explicit --max-retry-rounds argument tried
MaxRoundsArg == 2
\* batched calls of one run in which the ids above MaxIds fail
MaxCommonFaults == 1
\* jitter draws: 0, 1/JitterSteps, ..., 1 of the largest jitter
JitterSteps == 2
\* sleeps of one round loop followed (the base delay is capped from the 7th)
MaxRoundSleeps == 8
\* pages of the longest listing
MaxPages == 3
\* records of the longest collection filtered
MaxQueueLen == 3
\* calls made on one Processor, one after the other
MaxCalls == 2
\* runs of the program, one after the other
MaxRuns == 2

(***************************************************************************)
(* Program constants.                                                      *)
(***************************************************************************)
MAX_RETRIES == 5
RETRY_BATCH_SIZE == 50
\* a slip: the initial pass cut into the batches of the retry rounds
BATCH_SIZE_of_retry_rounds == RETRY_BATCH_SIZE
BATCH_SIZE == 100
DEFAULT_MAX_RETRY_ROUNDS == 5
CACHE_TTL_SECONDS == 86400
RETRY_BASE_DELAY_SECONDS == 1
RETRY_MAX_DELAY_SECONDS == 60
\* getattr(exception.resp, "status", None): the error carries no status
NoStatus == 0

None == "None"

(***************************************************************************)
(* Sequences.                                                              *)
(***************************************************************************)
Range(s) == {s[i] : i \in 1..Len(s)}

NoDup(s) == \A i, j \in 1..Len(s) : s[i] = s[j] => i = j

Min(a, b) == IF a <= b THEN a ELSE b

\* a slip: nothing dropped
Without_nothing(s, drop) == s

\* [x for x in s if x not in drop]
Without(s, drop) == SelectSeq(s, LAMBDA x : x \notin drop)

\* the sequence 1, 2, ..., n
Iota(n) == [i \in 1..n |-> i]

\* helpers.chunks(lst, n): consecutive groups of n, the last possibly smaller
RECURSIVE chunks(_, _)
chunks(lst, n) ==
    IF lst = <<>> THEN <<>>
    ELSE <<SubSeq(lst, 1, Min(n, Len(lst)))>>
         \o chunks(SubSeq(lst, Min(n, Len(lst)) + 1, Len(lst)), n)

(***************************************************************************)
(* Backoff.  A delay is counted in units of 1 / (10 * JitterSteps) of a    *)
(* second, so that a tenth of a delay and the jitter drawn from it are     *)
(* integers; random.uniform(0, b) is one of 0, b / JitterSteps, ..., b.    *)
(***************************************************************************)
RECURSIVE pow2(_)
pow2(n) == IF n = 0 THEN 1 ELSE 2 * pow2(n - 1)

\* units in a second
Seconds == 10 * JitterSteps

\* a slip: the cap min(_RETRY_MAX_DELAY_SECONDS, ...) forgotten
sleep_with_backoff_uncapped(attempt, draw) ==
    LET base_delay == RETRY_BASE_DELAY_SECONDS * pow2(attempt)
    IN  base_delay * Seconds + draw * base_delay

\* a slip: jitter of up to twice the base delay
sleep_with_backoff_wide_jitter(attempt, draw) ==
    LET base_delay == Min(RETRY_MAX_DELAY_SECONDS, RETRY_BASE_DELAY_SECONDS * pow2(attempt))
    IN  base_delay * Seconds + draw * base_delay * 20

\* Processor._sleep_with_backoff: the time slept, draw in 0..JitterSteps
sleep_with_backoff(attempt, draw) ==
    LET base_delay == Min(RETRY_MAX_DELAY_SECONDS, RETRY_BASE_DELAY_SECONDS * pow2(attempt))
    IN  base_delay * Seconds + draw * base_delay

\* the time Processor._execute_with_backoff sleeps before a retry
backoff_wait(attempt, draw) ==
    LET wait_time == Min(RETRY_MAX_DELAY_SECONDS, RETRY_BASE_DELAY_SECONDS * pow2(attempt))
    IN  wait_time * Seconds + draw * wait_time

(***************************************************************************)
(* Exceptions.  An HttpError carries resp.status and a content; the        *)
(* content is either unusable for one of the reasons                       *)
(* _extract_error_reason catches, or yields                                *)
(* payload["error"]["errors"][0]["reason"].                                *)
(***************************************************************************)
ContentKinds ==
    {"undecodable", "invalidjson", "nonobject", "noerrorkey", "emptyerrors",
     "noreason", "reason"}

Reasons ==
    {"rateLimitExceeded", "userRateLimitExceeded", "forbidden",
     "dailyLimitExceeded", "quotaExceeded", "backendError"}

Statuses == {NoStatus, 400, 401, 403, 404, 429, 500, 502, 503}

HttpError(status, kind, reason) ==
    [type |-> "HttpError", status |-> status, content |-> kind, reason |-> reason]

\* an exception that is not an HttpError (a socket error, a KeyError)
OtherError(name) ==
    [type |-> name, status |-> NoStatus, content |-> "undecodable", reason |-> None]

NoException == OtherError("none")

AllExceptions ==
    {HttpError(s, k, IF k = "reason" THEN r ELSE None) :
        s \in Statuses, k \in ContentKinds, r \in Reasons}
    \cup {OtherError("OSError")}

\* Processor._extract_error_reason
extract_error_reason(exception) ==
    IF exception.content \in {"undecodable", "invalidjson"} THEN None
    ELSE IF exception.content \in {"nonobject", "noerrorkey", "emptyerrors", "noreason"}
         THEN None
    ELSE exception.reason

\* a slip: every 403 retried, whatever its reason
should_retry_any_403(exception) ==
    IF exception.type # "HttpError" THEN FALSE
    ELSE exception.status \in {429, 500, 503, 403}

\* Processor._should_retry
should_retry(exception) ==
    IF exception.type # "HttpError" THEN FALSE
    ELSE IF exception.status \in {429, 500, 503} THEN TRUE
    ELSE IF exception.status = 403
            /\ extract_error_reason(exception) \in {"rateLimitExceeded", "userRateLimitExceeded"}
         THEN TRUE
    ELSE FALSE

(***************************************************************************)
(* The errors the remote API answers with in the fetch pipeline: one       *)
(* representative of each way through _should_retry.                       *)
(***************************************************************************)
ApiErrors ==
    {HttpError(503, "invalidjson", None),
     HttpError(403, "reason", "rateLimitExceeded"),
     HttpError(403, "reason", "forbidden")}

\* what a sub-request of a batched call resolves to
Outcomes == {NoException} \cup ApiErrors


\* the answers the API may give to one batched call for `batch`: the whole
\* call fails with `exception`, or every sub-request resolves on its own.
\* Ids above MaxIds share one outcome per call, an error only while `budget`
\* (the calls that may still answer so) is positive.
ItemOutcomes(batch, budget) ==
    LET ids == Range(batch)
        special == ids \cap (1..MaxIds)
    IN  {[id \in ids |-> IF id \in special THEN g[id] ELSE c] :
            g \in [special -> Outcomes],
            c \in (IF ids \subseteq special \/ budget <= 0
                   THEN {NoException} ELSE Outcomes)}

Responses(batch, budget) ==
    {[exception |-> e, items |-> [id \in Range(batch) |-> NoException]] : e \in ApiErrors}
    \cup {[exception |-> NoException, items |-> o] : o \in ItemOutcomes(batch, budget)}

\* whether the answer spends one of the calls counted by `budget`
SpendsBudget(resp) ==
    /\ resp.exception = NoException
    /\ \E id \in DOMAIN resp.items : id > MaxIds /\ resp.items[id] # NoException

(***************************************************************************)
(* The state.                                                              *)
(***************************************************************************)
VARIABLES
    pc,                  \* where the run stands
    max_retry_rounds,    \* Processor.max_retry_rounds (None: no limit)
    messagesQueue,       \* Processor.messagesQueue: ids of the records held
    failedMessagesQueue, \* Processor.failedMessagesQueue
    cache_exists,        \* os.path.exists(cache/metadata.pickle)
    cached,              \* the content of the metadata cache file
    cache_valid,         \* pickle.load can read the metadata cache file
    cache_age,           \* time.time() - os.path.getmtime of that file
    notice,              \* what was printed about loading that file
    force_refresh,       \* get_metadata's argument
    messages,            \* get_metadata's local: the refs to fetch
    batches,             \* the chunks not yet done, the current one first
    attempt,             \* _execute_with_backoff's local (0 outside a call)
    retry_round,         \* _retry_failed_messages' local
    failed_ids,          \* _retry_failed_messages' local: the round's snapshot
    exception,           \* the exception get_metadata raised
    exit,                \* the statement get_metadata or the round loop left by
    invocations,         \* times the call in hand, or the call that last
                         \* raised, was invoked
    last_batch,          \* ids of the sub-requests sent by the step just taken
    batch_sizes,         \* sizes of the batches built by the initial pass
    rounds,              \* retry rounds started
    warnings,            \* ids a "Skipping message" warning was printed for
    scenario_b,          \* the API has answered as scenario B prescribes
    common_faults,       \* batched calls in which the ids above MaxIds failed
    cls_exception,       \* classification on its own: the error classified
    cls_verdict,         \* and what _should_retry returned for it
    bo_kind,             \* backoff on its own: "call" or "round" loop
    bo_slept,            \* the delays it slept, that of attempt 0 first
    ls_pc,               \* listing on its own: where it stands
    ls_kind,             \* "messages": get_messages, "query": get_query_message_ids
    ls_query,            \* Processor.query is set
    ls_force,            \* get_messages' argument force_refresh
    ls_chain,            \* the pages the API holds for the listing, in order
    ls_token,            \* the page the next list call asks for
    ls_attempt,          \* _execute_with_backoff's local for that call
    ls_messages,         \* the local messages: ids accumulated
    ls_requests,         \* the pages that were answered, in order
    ls_result,           \* the list get_messages returned
    ls_ids,              \* the set get_query_message_ids returned
    ls_exit,             \* how the listing ended
    ls_exception,        \* the exception it raised
    msg_cache_exists,    \* os.path.exists(cache/messages.pickle)
    msg_cache_valid,     \* pickle.load can read that file
    msg_cache_age,       \* time.time() - os.path.getmtime of that file
    msg_cached,          \* the content of that file
    flt_in,              \* filtering on its own: messagesQueue before it
    flt_ids,             \* the message_ids given to filter_messages_queue
    flt_count,           \* times filter_messages_queue was applied
    calls,               \* calls on this Processor that have returned or raised
    held,                \* messagesQueue when the present call began
    wr_pc,               \* a cache write step by step: where it stands
    wr_old,              \* the cache file before the write
    wr_new,              \* the collection being written
    wr_written,          \* records of it that have reached the file
    failed_at_entry,     \* failedMessagesQueue when _retry_failed_messages began
    given,               \* the messages given to get_metadata
    run,                 \* runs of the program one after the other: which one
    prev,                \* what the run before was given and what it returned with
    an_pc,               \* Metrics.analyse: where the main thread stands
    an_stage,            \* the stage it is at, an index of Tasks
    an_inactive,         \* inactive_days > 0, as read at the last stage
    an_task,             \* per stage, where its task stands in the pool
    an_event,            \* per stage, whether its Event is set
    an_table,            \* whether self.table has been assigned
    an_read              \* per stage, what its task found in self.table

vars ==
    <<pc, max_retry_rounds, messagesQueue, failedMessagesQueue, cache_exists,
      cached, cache_valid, cache_age, notice, force_refresh, messages, batches, attempt, retry_round,
      failed_ids, exception, exit, invocations, last_batch, batch_sizes, rounds,
      warnings, scenario_b, common_faults, cls_exception, cls_verdict,
      bo_kind, bo_slept,
      ls_pc, ls_kind, ls_query, ls_force, ls_chain, ls_token, ls_attempt, ls_messages,
      ls_requests, ls_result, ls_ids, ls_exit, ls_exception,
      msg_cache_exists, msg_cache_valid, msg_cache_age, msg_cached,
      flt_in, flt_ids, flt_count, calls, held,
      wr_pc, wr_old, wr_new, wr_written, failed_at_entry, given, run, prev,
      an_pc, an_stage, an_inactive, an_task, an_event, an_table, an_read>>

cls_vars == <<cls_exception, cls_verdict>>

bo_vars == <<bo_kind, bo_slept>>

ls_vars ==
    <<ls_pc, ls_kind, ls_query, ls_force, ls_chain, ls_token, ls_attempt, ls_messages,
      ls_requests, ls_result, ls_ids, ls_exit, ls_exception>>

msg_cache_vars == <<msg_cache_exists, msg_cache_valid, msg_cache_age, msg_cached>>

\* an optional set of ids: Python's None, or the set
NoIds == [none |-> TRUE, ids |-> {}]

Ids(S) == [none |-> FALSE, ids |-> S]

\* the sequences of at most n elements of S
RECURSIVE SeqsUpTo(_, _)
SeqsUpTo(S, n) ==
    IF n = 0 THEN {<<>>}
    ELSE SeqsUpTo(S, n - 1)
         \cup {Append(q, x) : q \in {t \in SeqsUpTo(S, n - 1) : Len(t) = n - 1}, x \in S}

flt_vars == <<flt_in, flt_ids, flt_count>>

reuse_vars == <<calls, held>>

wr_vars == <<wr_pc, wr_old, wr_new, wr_written>>

\* a cache file: whether it exists, whether pickle can read it, its content
File(exists, valid, content) ==
    [exists |-> exists, valid |-> valid, content |-> content]

\* no cache write is being followed step by step
WriteIdle ==
    /\ wr_pc = "idle"
    /\ wr_old = File(FALSE, TRUE, <<>>)
    /\ wr_new = <<>>
    /\ wr_written = 0

\* what a run of get_metadata leaves alone
an_vars == <<an_pc, an_stage, an_inactive, an_task, an_event, an_table, an_read>>

side_vars ==
    <<cls_vars, bo_vars, ls_vars, msg_cache_vars, flt_vars, reuse_vars, wr_vars, run, prev,
      an_vars>>

\* the stages of Metrics.analyse, by the method each submits to the pool
Tasks ==
    <<"_load_table", "_analyze_count", "_analyze_senders", "_analyze_date",
      "_analyze_inactive_senders">>

\* Metrics.analyse not yet called: nothing submitted, self.table None
AnalyseIdle ==
    /\ an_pc = "submit"
    /\ an_stage = 1
    /\ an_task = [i \in DOMAIN Tasks |-> "none"]
    /\ an_event = [i \in DOMAIN Tasks |-> FALSE]
    /\ an_table = FALSE
    /\ an_read = [i \in DOMAIN Tasks |-> "unread"]

runs_vars == <<run, prev>>

\* the first run of the program
FirstRun ==
    /\ run = 1
    /\ prev = [refs |-> <<>>, result |-> <<>>]

\* the first call on a Processor
FirstCall ==
    /\ calls = 0
    /\ held = <<>>

\* no backoff is being followed
BackoffIdle ==
    /\ bo_kind = "none"
    /\ bo_slept = <<>>

\* a listing not yet called, whatever it is to find
ListConstructed ==
    /\ ls_force = FALSE
    /\ ls_token = 0
    /\ ls_attempt = 0
    /\ ls_messages = <<>>
    /\ ls_requests = <<>>
    /\ ls_result = <<>>
    /\ ls_ids = {}
    /\ ls_exit = "none"
    /\ ls_exception = NoException

\* no filtering is being followed
FilterIdle ==
    /\ flt_in = <<>>
    /\ flt_ids = NoIds
    /\ flt_count = 0

\* no listing is being followed
ListIdle ==
    /\ ListConstructed
    /\ ls_pc = "idle"
    /\ ls_kind = "none"
    /\ ls_query = FALSE
    /\ ls_chain = <<>>
    /\ msg_cache_exists = FALSE
    /\ msg_cache_valid = TRUE
    /\ msg_cache_age = 0
    /\ msg_cached = <<>>

run_vars ==
    <<pc, max_retry_rounds, messagesQueue, failedMessagesQueue, cache_exists,
      cached, cache_valid, cache_age, notice, force_refresh, messages, batches, attempt, retry_round,
      failed_ids, exception, exit, invocations, last_batch, batch_sizes, rounds,
      warnings, scenario_b, common_faults, failed_at_entry, given>>

\* _retry_failed_messages is entered where the for loop of get_metadata is
\* left: what failedMessagesQueue holds then
EnterRounds ==
    failed_at_entry' = IF pc \in {"start", "pass"} /\ pc' = "rounds"
                       THEN failedMessagesQueue' ELSE failed_at_entry

(***************************************************************************)
(* Inputs.                                                                 *)
(***************************************************************************)
\* the sequences without repetition over a set of ids
RECURSIVE Arrangements(_)
Arrangements(S) ==
    {<<>>} \cup UNION {{<<x>> \o t : t \in Arrangements(S \ {x})} : x \in S}

\* n ids beyond MaxIds
Beyond(n) == [i \in 1..n |-> MaxIds + i]

\* what the listing hands to get_metadata: a short list over the ids
\* 1..MaxIds, or a long list: 51 refs (a retry round of two batches) or 250
\* refs beyond MaxIds (an initial pass of three)
LongRefs == {Iota(51), Beyond(250)}

Refs == Arrangements(1..MaxIds) \cup LongRefs

\* short lists again, and lists that carry an id twice: in one batch, and
\* in two batches of the initial pass
DupRefs == Arrangements(1..MaxIds) \cup {<<1, 1>>, Beyond(100) \o Beyond(1)}

\* the ages a metadata cache file is found with: the last fresh one, the
\* first stale one
MetadataAges == {CACHE_TTL_SECONDS - 1, CACHE_TTL_SECONDS}

\* cache_fresh of get_metadata, for a file that exists
cache_fresh(age) == age < CACHE_TTL_SECONDS

\* an optional integer: Python's None, or the integer n
NoInt == [none |-> TRUE, n |-> 0]

Int_(n) == [none |-> FALSE, n |-> n]

\* max_retry_rounds as given to the constructor
RoundArgs == {NoInt} \cup {Int_(n) : n \in -1..MaxRoundsArg}

\* Processor.__init__
InitMaxRetryRounds(arg) ==
    IF arg.none THEN Int_(DEFAULT_MAX_RETRY_ROUNDS)
    ELSE IF arg.n <= 0 THEN NoInt
    ELSE Int_(arg.n)

(***************************************************************************)
(* The pieces of the handlers.                                             *)
(***************************************************************************)
\* a slip: the id of a permanent error is warned about and queued for retry
process_message_queues_permanent(st, request_id, exc) ==
    IF exc # NoException
    THEN IF should_retry(exc)
         THEN [st EXCEPT !.fq = Append(@, request_id)]
         ELSE [st EXCEPT !.warn = Append(@, request_id), !.fq = Append(@, request_id)]
    ELSE [st EXCEPT !.mq = Append(@, request_id)]

\* a slip: no return after the error branch, the record is appended as well
process_message_falls_through(st, request_id, exc) ==
    IF exc # NoException
    THEN IF should_retry(exc)
         THEN [st EXCEPT !.fq = Append(@, request_id), !.mq = Append(@, request_id)]
         ELSE [st EXCEPT !.warn = Append(@, request_id), !.mq = Append(@, request_id)]
    ELSE [st EXCEPT !.mq = Append(@, request_id)]

\* Processor.process_message, the callback of one sub-request, on
\* st = [mq: messagesQueue, fq: failedMessagesQueue, warn: warnings]
process_message(st, request_id, exc) ==
    IF exc # NoException
    THEN IF should_retry(exc)
         THEN [st EXCEPT !.fq = Append(@, request_id)]
         ELSE [st EXCEPT !.warn = Append(@, request_id)]
    ELSE [st EXCEPT !.mq = Append(@, request_id)]

\* batch.execute once the call itself went through: one callback per
\* sub-request, in the order the sub-requests were added: those of the first
\* half of the batch, then those of the second on the state the first half
\* left (the singleton set has TLC compute that state before it goes on)
RECURSIVE Callbacks(_, _, _)
Callbacks(st, batch, items) ==
    IF batch = <<>> THEN st
    ELSE IF Len(batch) = 1 THEN process_message(st, batch[1], items[batch[1]])
    ELSE LET half == Len(batch) \div 2
         IN  CHOOSE r \in {Callbacks(first, SubSeq(batch, half + 1, Len(batch)), items) :
                              first \in {Callbacks(st, SubSeq(batch, 1, half), items)}} : TRUE

\* a slip: attempt > _MAX_RETRIES, one retry more
execute_with_backoff_one_more(e, a) ==
    IF e = NoException THEN "return"
    ELSE IF ~should_retry(e) \/ a > MAX_RETRIES THEN "raise"
    ELSE "retry"

\* a slip: the last retry left out, attempt >= _MAX_RETRIES - 1
execute_with_backoff_gives_up_early(e, a) ==
    IF e = NoException THEN "return"
    ELSE IF ~should_retry(e) \/ a >= MAX_RETRIES - 1 THEN "raise"
    ELSE "retry"

\* one turn of the loop of Processor._execute_with_backoff, the call having
\* answered with exception e (NoException: it returned) on attempt a
execute_with_backoff(e, a) ==
    IF e = NoException THEN "return"
    ELSE IF ~should_retry(e) \/ a >= MAX_RETRIES THEN "raise"
    ELSE "retry"

\* a slip: retry_round <= max_retry_rounds, one round more
RoundLoopCondition_one_more(fq, round, limit) ==
    fq # <<>> /\ (limit.none \/ round <= limit.n)

\* a slip: the test for None left out, no limit read as a limit of 0
RoundLoopCondition_without_none(fq, round, limit) ==
    fq # <<>> /\ round < limit.n

\* the loop condition of Processor._retry_failed_messages
RoundLoopCondition(fq, round, limit) ==
    fq # <<>> /\ (limit.none \/ round < limit.n)

\* a slip: > for >=, a round that leaves as many failures goes on
Stagnation_strict(fq, snapshot) ==
    fq # <<>> /\ Len(fq) > Len(snapshot)

\* the stagnation test that ends a round of Processor._retry_failed_messages
Stagnation(fq, snapshot) ==
    fq # <<>> /\ Len(fq) >= Len(snapshot)

\* whether an answer given during retry round r is the one scenario B
\* prescribes: 503 for the whole call in rounds 1 to 3, success in round 4
FollowsScenarioB(r, resp) ==
    IF r <= 3 THEN resp.exception = HttpError(503, "invalidjson", None)
    ELSE IF r = 4
         THEN /\ resp.exception = NoException
              /\ \A id \in DOMAIN resp.items : resp.items[id] = NoException
    ELSE TRUE

(***************************************************************************)
(* Init: a Processor just constructed, beside whatever metadata cache an   *)
(* earlier run left.                                                       *)
(***************************************************************************)
Constructed ==
    /\ pc = "start"
    /\ messagesQueue = <<>>
    /\ failedMessagesQueue = <<>>
    /\ force_refresh = FALSE
    /\ messages = <<>>
    /\ batches = <<>>
    /\ attempt = 0
    /\ retry_round = 0
    /\ failed_ids = <<>>
    /\ exception = NoException
    /\ exit = "none"
    /\ invocations = 0
    /\ last_batch = <<>>
    /\ batch_sizes = <<>>
    /\ rounds = 0
    /\ warnings = <<>>
    /\ scenario_b = TRUE
    /\ common_faults = 0
    /\ notice = "none"
    /\ failed_at_entry = <<>>
    /\ given = <<>>

Init ==
    /\ Constructed
    /\ \E arg \in RoundArgs : max_retry_rounds = InitMaxRetryRounds(arg)
    /\ cache_exists \in BOOLEAN
    /\ cache_valid \in (IF cache_exists THEN BOOLEAN ELSE {TRUE})
    /\ cache_age \in (IF cache_exists THEN MetadataAges ELSE {0})
    /\ cached \in (IF cache_exists /\ cache_valid THEN Arrangements(1..MaxCached)
                   ELSE {<<>>})
    /\ cls_exception = NoException
    /\ cls_verdict = "unset"
    /\ BackoffIdle
    /\ ListIdle
    /\ FilterIdle
    /\ FirstCall
    /\ WriteIdle
    /\ FirstRun
    /\ AnalyseIdle
    /\ an_inactive = FALSE

(***************************************************************************)
(* Processor.get_metadata up to its first remote call: load the cache,     *)
(* drop the refs already cached, cut the rest into batches.                *)
(***************************************************************************)
GetMetadata(refs, force) ==
    /\ pc = "start"
    /\ LET load == cache_exists /\ ~force
           \* pickle.load raises on a file it cannot read
           corrupt == load /\ ~cache_valid
           todo == IF load /\ ~corrupt THEN Without(refs, Range(cached)) ELSE refs
           early == load /\ ~corrupt /\ todo = <<>>
       IN  /\ notice' = IF ~load THEN notice
                        ELSE IF cache_fresh(cache_age) THEN "cache" ELSE "stale"
           /\ messagesQueue' = IF load /\ ~corrupt THEN cached ELSE messagesQueue
           /\ messages' = todo
           /\ batches' = IF early \/ corrupt THEN <<>> ELSE chunks(todo, BATCH_SIZE)
           /\ pc' = IF corrupt THEN "raised"
                    ELSE IF early THEN "done"
                    ELSE IF todo = <<>> THEN "rounds" ELSE "pass"
           /\ exit' = IF corrupt THEN "raised"
                      ELSE IF early THEN "cached" ELSE "none"
           /\ exception' = IF corrupt THEN OtherError("UnpicklingError") ELSE exception
    /\ force_refresh' = force
    /\ given' = refs
    /\ retry_round' = 0
    /\ last_batch' = <<>>
    /\ UNCHANGED <<max_retry_rounds, failedMessagesQueue, cache_exists, cached,
                   cache_valid, cache_age, attempt, failed_ids, invocations,
                   batch_sizes, rounds, warnings, scenario_b, common_faults, side_vars>>
    /\ EnterRounds

(***************************************************************************)
(* One invocation of batch.execute for the current batch of the initial    *)
(* pass (get_metadata's for loop), through _execute_with_backoff.          *)
(***************************************************************************)
FetchBatch ==
    /\ pc = "pass"
    /\ batches # <<>>
    /\ LET batch == Head(batches)
           n == IF attempt = 0 THEN 0 ELSE invocations
           sizes == IF attempt = 0 THEN Append(batch_sizes, Len(batch))
                    ELSE batch_sizes
       IN  IF ~NoDup(batch)
           THEN \* batch.add refuses a request_id it already holds: KeyError
                /\ pc' = "raised"
                /\ exception' = OtherError("KeyError")
                /\ exit' = "raised"
                /\ batch_sizes' = sizes
                /\ last_batch' = <<>>
                /\ UNCHANGED <<messagesQueue, failedMessagesQueue, warnings,
                               batches, attempt, invocations, common_faults>>
           ELSE \E resp \in Responses(batch, MaxCommonFaults - common_faults) :
                LET turn == execute_with_backoff(resp.exception, attempt)
                    st == Callbacks([mq |-> messagesQueue,
                                     fq |-> failedMessagesQueue,
                                     warn |-> warnings], batch, resp.items)
                IN  /\ invocations' = IF turn = "return" THEN 0 ELSE n + 1
                    /\ last_batch' = batch
                    /\ batch_sizes' = sizes
                    /\ attempt' = IF turn = "retry" THEN attempt + 1 ELSE 0
                    /\ exception' = IF turn = "raise" THEN resp.exception ELSE exception
                    /\ exit' = IF turn = "raise" THEN "raised" ELSE exit
                    /\ batches' = IF turn = "return" THEN Tail(batches) ELSE batches
                    /\ pc' = IF turn = "raise" THEN "raised"
                             ELSE IF turn = "return" /\ Tail(batches) = <<>> THEN "rounds"
                             ELSE "pass"
                    /\ messagesQueue' = IF turn = "return" THEN st.mq ELSE messagesQueue
                    /\ failedMessagesQueue' =
                           IF turn = "return" THEN st.fq ELSE failedMessagesQueue
                    /\ warnings' = IF turn = "return" THEN st.warn ELSE warnings
                    /\ common_faults' = IF SpendsBudget(resp) THEN common_faults + 1
                                        ELSE common_faults
    /\ UNCHANGED <<max_retry_rounds, cache_exists, cached, cache_valid, cache_age,
                   notice, force_refresh, messages,
                   retry_round, failed_ids, rounds, scenario_b, side_vars, given>>
    /\ EnterRounds

(***************************************************************************)
(* Processor._retry_failed_messages.                                       *)
(***************************************************************************)
\* a slip: the write left out when a cache file is there already
WriteCache_once(mq) ==
    /\ cache_exists' = TRUE
    /\ cached' = IF cache_exists THEN cached ELSE mq
    /\ cache_valid' = IF cache_exists THEN cache_valid ELSE TRUE
    /\ cache_age' = IF cache_exists THEN cache_age ELSE 0

\* the end of get_metadata: pickle.dump(self.messagesQueue) into the cache
WriteCache(mq) ==
    /\ cache_exists' = TRUE
    /\ cached' = mq
    /\ cache_valid' = TRUE
    /\ cache_age' = 0

\* the head of a round: snapshot the failed ids, clear the queue, sleep, cut
\* the snapshot into batches
RoundStart ==
    /\ pc = "rounds"
    /\ RoundLoopCondition(failedMessagesQueue, retry_round, max_retry_rounds)
    /\ failed_ids' = failedMessagesQueue
    /\ failedMessagesQueue' = <<>>
    /\ batches' = chunks(failedMessagesQueue, RETRY_BATCH_SIZE)
    /\ rounds' = rounds + 1
    /\ last_batch' = <<>>
    /\ pc' = "retry"
    /\ UNCHANGED <<max_retry_rounds, messagesQueue, cache_exists, cached,
                   cache_valid, cache_age, notice,
                   force_refresh, messages, attempt, retry_round,
                   exception, exit, invocations, batch_sizes, warnings,
                   scenario_b, common_faults, side_vars, given>>
    /\ EnterRounds

\* the loop condition is false: report what is left, return to get_metadata,
\* which writes the cache
RoundLoopExit ==
    /\ pc = "rounds"
    /\ ~RoundLoopCondition(failedMessagesQueue, retry_round, max_retry_rounds)
    /\ pc' = "done"
    /\ exit' = "loop"
    /\ last_batch' = <<>>
    /\ WriteCache(messagesQueue)
    /\ UNCHANGED <<max_retry_rounds, messagesQueue, failedMessagesQueue, notice,
                   force_refresh, messages, batches, attempt,
                   retry_round, failed_ids, exception, invocations, batch_sizes,
                   rounds, warnings, scenario_b, common_faults, side_vars, given>>
    /\ EnterRounds

\* one invocation of batch.execute for the current batch of a retry round
RetryBatch ==
    /\ pc = "retry"
    /\ batches # <<>>
    /\ LET batch == Head(batches)
           n == IF attempt = 0 THEN 0 ELSE invocations
       IN  IF ~NoDup(batch)
           THEN \* batch.add refuses a request_id it already holds: KeyError,
                \* which the except HttpError clause does not catch
                /\ pc' = "raised"
                /\ exception' = OtherError("KeyError")
                /\ exit' = "raised"
                /\ last_batch' = <<>>
                /\ UNCHANGED <<messagesQueue, failedMessagesQueue, warnings,
                               batches, attempt, invocations, retry_round,
                               cache_exists, cached, cache_valid, cache_age,
                               scenario_b, common_faults>>
           ELSE \E resp \in Responses(batch, MaxCommonFaults - common_faults) :
                LET turn == execute_with_backoff(resp.exception, attempt)
                    st == IF turn = "return"
                          THEN Callbacks([mq |-> messagesQueue,
                                          fq |-> failedMessagesQueue,
                                          warn |-> warnings], batch, resp.items)
                          ELSE [mq |-> messagesQueue, fq |-> failedMessagesQueue,
                                warn |-> warnings]
                    \* except HttpError: a permanent error ends the loop
                    abort == turn = "raise" /\ ~should_retry(resp.exception)
                    last == turn # "retry" /\ ~abort /\ Tail(batches) = <<>>
                    stagnant == last /\ Stagnation(st.fq, failed_ids)
                IN  /\ invocations' = IF turn = "return" THEN 0 ELSE n + 1
                    /\ last_batch' = batch
                    /\ attempt' = IF turn = "retry" THEN attempt + 1 ELSE 0
                    /\ exception' = exception
                    /\ scenario_b' = (scenario_b /\ FollowsScenarioB(rounds, resp))
                    /\ messagesQueue' = st.mq
                    /\ failedMessagesQueue' = st.fq
                    /\ warnings' = st.warn
                    /\ common_faults' = IF SpendsBudget(resp) THEN common_faults + 1
                                        ELSE common_faults
                    /\ batches' = IF turn = "retry" \/ abort THEN batches
                                  ELSE Tail(batches)
                    /\ retry_round' = IF last THEN retry_round + 1 ELSE retry_round
                    /\ exit' = IF abort THEN "batch_failed"
                               ELSE IF stagnant THEN "stagnation" ELSE exit
                    /\ pc' = IF abort \/ stagnant THEN "done"
                             ELSE IF last THEN "rounds" ELSE "retry"
                    /\ IF abort \/ stagnant
                       THEN WriteCache(st.mq)
                       ELSE UNCHANGED <<cache_exists, cached, cache_valid, cache_age>>
    /\ UNCHANGED <<max_retry_rounds, notice, force_refresh, messages, failed_ids,
                   batch_sizes, rounds, side_vars, given>>
    /\ EnterRounds

\* a slip: the freshness test of get_metadata applied here too, a stale
\* file reported as absent
LoadCachedMetadata_fresh_only ==
    /\ pc = "start"
    /\ LET found == cache_exists /\ cache_fresh(cache_age)
           corrupt == found /\ ~cache_valid
       IN  /\ pc' = IF corrupt THEN "raised" ELSE "done"
           /\ exit' = IF corrupt THEN "raised"
                      ELSE IF found THEN "loaded" ELSE "absent"
           /\ exception' = IF corrupt THEN OtherError("UnpicklingError") ELSE exception
           /\ messagesQueue' = IF found /\ ~corrupt THEN cached
                               ELSE messagesQueue
           /\ notice' = IF found THEN "cache" ELSE notice
    /\ UNCHANGED <<max_retry_rounds, failedMessagesQueue, cache_exists, cached,
                   cache_valid, cache_age, force_refresh, messages, batches, attempt,
                   retry_round, failed_ids, invocations, last_batch,
                   batch_sizes, rounds, warnings, scenario_b, common_faults, side_vars, given>>
    /\ EnterRounds

(***************************************************************************)
(* Processor.load_cached_metadata.                                         *)
(***************************************************************************)
LoadCachedMetadata ==
    /\ pc = "start"
    /\ LET corrupt == cache_exists /\ ~cache_valid
       IN  /\ pc' = IF corrupt THEN "raised" ELSE "done"
           /\ exit' = IF corrupt THEN "raised"
                      ELSE IF cache_exists THEN "loaded" ELSE "absent"
           /\ exception' = IF corrupt THEN OtherError("UnpicklingError") ELSE exception
           /\ messagesQueue' = IF cache_exists /\ ~corrupt THEN cached
                               ELSE messagesQueue
    /\ notice' = IF cache_exists THEN "cache" ELSE notice
    /\ UNCHANGED <<max_retry_rounds, failedMessagesQueue, cache_exists, cached,
                   cache_valid, cache_age, force_refresh, messages, batches, attempt,
                   retry_round, failed_ids, invocations, last_batch,
                   batch_sizes, rounds, warnings, scenario_b, common_faults, side_vars, given>>
    /\ EnterRounds

(***************************************************************************)
(* A run of the program: one Processor, loaded from the cache or filled by *)
(* one get_metadata over refs without repetition.  The long lists are      *)
(* fetched by a first run, which finds no cache file.                      *)
(***************************************************************************)
Next ==
    \/ \E refs \in Refs, force \in BOOLEAN :
          /\ refs \in LongRefs => ~cache_exists /\ ~force
          /\ GetMetadata(refs, force)
    \/ FetchBatch
    \/ RoundStart
    \/ RoundLoopExit
    \/ RetryBatch
    \/ LoadCachedMetadata

Spec == Init /\ [][Next]_vars

(***************************************************************************)
(* Processor._retry_failed_messages on its own, from where the initial     *)
(* pass of a first run (no cache file) enters it when every sub-request    *)
(* failed with a transient error: a short list, or 51 ids.  The thread     *)
(* that runs it is not held up for ever: every remote call and every sleep *)
(* comes back.                                                             *)
(***************************************************************************)
InitRounds ==
    /\ pc = "rounds"
    /\ \E arg \in RoundArgs : max_retry_rounds = InitMaxRetryRounds(arg)
    /\ messages \in Arrangements(1..MaxIds) \cup {Beyond(51)}
    /\ failedMessagesQueue = messages
    /\ failed_at_entry = messages
    /\ given = messages
    /\ last_batch = messages
    /\ batch_sizes = (IF messages = <<>> THEN <<>> ELSE <<Len(messages)>>)
    /\ common_faults = (IF Len(messages) > MaxIds THEN 1 ELSE 0)
    /\ messagesQueue = <<>>
    /\ cache_exists = FALSE
    /\ cached = <<>>
    /\ cache_valid = TRUE
    /\ cache_age = 0
    /\ notice = "none"
    /\ force_refresh \in BOOLEAN
    /\ batches = <<>>
    /\ attempt = 0
    /\ retry_round = 0
    /\ failed_ids = <<>>
    /\ exception = NoException
    /\ exit = "none"
    /\ invocations = 0
    /\ rounds = 0
    /\ warnings = <<>>
    /\ scenario_b = TRUE
    /\ cls_exception = NoException
    /\ cls_verdict = "unset"
    /\ BackoffIdle
    /\ ListIdle
    /\ FilterIdle
    /\ FirstCall
    /\ WriteIdle
    /\ FirstRun
    /\ AnalyseIdle
    /\ an_inactive = FALSE

NextRounds ==
    \/ RoundStart
    \/ RoundLoopExit
    \/ RetryBatch

SpecRounds == InitRounds /\ [][NextRounds]_vars

FairRounds == SpecRounds /\ WF_vars(NextRounds)

(***************************************************************************)
(* The same run over refs that may carry an id twice.                      *)
(***************************************************************************)
NextDup ==
    \/ \E refs \in DupRefs, force \in BOOLEAN :
          /\ Len(refs) > MaxIds => ~cache_exists /\ ~force
          /\ GetMetadata(refs, force)
    \/ FetchBatch
    \/ RoundStart
    \/ RoundLoopExit
    \/ RetryBatch
    \/ LoadCachedMetadata

SpecDup == Init /\ [][NextDup]_vars

(***************************************************************************)
(* Processor._should_retry on its own, over every exception of             *)
(* AllExceptions.                                                          *)
(***************************************************************************)
InitClassify ==
    /\ Constructed
    /\ max_retry_rounds = InitMaxRetryRounds(NoInt)
    /\ cache_exists = FALSE
    /\ cached = <<>>
    /\ cache_valid = TRUE
    /\ cache_age = 0
    /\ cls_exception \in AllExceptions
    /\ cls_verdict = "unset"
    /\ BackoffIdle
    /\ ListIdle
    /\ FilterIdle
    /\ FirstCall
    /\ WriteIdle
    /\ FirstRun
    /\ AnalyseIdle
    /\ an_inactive = FALSE

Classify ==
    /\ cls_verdict = "unset"
    /\ cls_verdict' = IF should_retry(cls_exception) THEN "retryable" ELSE "permanent"
    /\ UNCHANGED <<cls_exception, run_vars, bo_vars, ls_vars, msg_cache_vars, flt_vars, reuse_vars, wr_vars, runs_vars, an_vars>>

SpecClassify == InitClassify /\ [][Classify]_vars

(***************************************************************************)
(* The two backoffs on their own: the sleeps of one call of                *)
(* _execute_with_backoff (attempts 0 to _MAX_RETRIES - 1), or those of one *)
(* round loop (rounds 0, 1, ...), each with every jitter draw.             *)
(***************************************************************************)
InitBackoff ==
    /\ Constructed
    /\ max_retry_rounds = InitMaxRetryRounds(NoInt)
    /\ cache_exists = FALSE
    /\ cached = <<>>
    /\ cache_valid = TRUE
    /\ cache_age = 0
    /\ cls_exception = NoException
    /\ cls_verdict = "unset"
    /\ bo_kind \in {"call", "round"}
    /\ bo_slept = <<>>
    /\ ListIdle
    /\ FilterIdle
    /\ FirstCall
    /\ WriteIdle
    /\ FirstRun
    /\ AnalyseIdle
    /\ an_inactive = FALSE

\* _execute_with_backoff sleeps before its retry number Len(bo_slept) + 1
CallSleep ==
    /\ bo_kind = "call"
    /\ Len(bo_slept) < MAX_RETRIES
    /\ \E draw \in 0..JitterSteps :
          bo_slept' = Append(bo_slept, backoff_wait(Len(bo_slept), draw))
    /\ UNCHANGED <<bo_kind, run_vars, cls_vars, ls_vars, msg_cache_vars, flt_vars, reuse_vars, wr_vars, runs_vars, an_vars>>

\* _retry_failed_messages sleeps at the head of its round Len(bo_slept) + 1
RoundSleep ==
    /\ bo_kind = "round"
    /\ Len(bo_slept) < MaxRoundSleeps
    /\ \E draw \in 0..JitterSteps :
          bo_slept' = Append(bo_slept, sleep_with_backoff(Len(bo_slept), draw))
    /\ UNCHANGED <<bo_kind, run_vars, cls_vars, ls_vars, msg_cache_vars, flt_vars, reuse_vars, wr_vars, runs_vars, an_vars>>

NextBackoff == CallSleep \/ RoundSleep

SpecBackoff == InitBackoff /\ [][NextBackoff]_vars

(***************************************************************************)
(* Listing on its own: Processor.get_messages, with the messages cache,    *)
(* and Processor.get_query_message_ids.  The API holds the listing as a    *)
(* chain of pages; a response carries nextPageToken unless it is the last  *)
(* page of the chain.  One step is one invocation of list(...).execute     *)
(* with what the code does with the answer.                                *)
(***************************************************************************)
\* a response: "messages" may be missing (the API leaves it out of a page
\* without messages), and so may "resultSizeEstimate"
Page(items, has_messages, has_estimate) ==
    [items |-> items, has_messages |-> has_messages, has_estimate |-> has_estimate]

\* what the k-th page may be: two refs, an empty list, or no "messages" key
PageChoices(k, estimates) ==
    {Page(<<2 * k - 1, 2 * k>>, TRUE, e) : e \in estimates}
    \cup {Page(<<>>, m, e) : m \in BOOLEAN, e \in estimates}

RECURSIVE ChainsOfLength(_, _)
ChainsOfLength(n, estimates) ==
    IF n = 0 THEN {<<>>}
    ELSE {Append(c, p) : c \in ChainsOfLength(n - 1, estimates),
                         p \in PageChoices(n, IF n = 1 THEN estimates ELSE {TRUE})}

\* the listings of 1 to MaxPages pages
Chains(estimates) == UNION {ChainsOfLength(n, estimates) : n \in 1..MaxPages}

\* the ages a messages cache file is found with, around the TTL
MessagesAges ==
    {0, CACHE_TTL_SECONDS - 1, CACHE_TTL_SECONDS, CACHE_TTL_SECONDS + 1}

\* a slip: <= for <, a file of age TTL still fresh
messages_fresh_inclusive(age) == age <= CACHE_TTL_SECONDS

\* the freshness test of get_messages, for a file that exists
messages_fresh(age) == age < CACHE_TTL_SECONDS

InitList ==
    /\ Constructed
    /\ max_retry_rounds = InitMaxRetryRounds(NoInt)
    /\ cache_exists = FALSE
    /\ cached = <<>>
    /\ cache_valid = TRUE
    /\ cache_age = 0
    /\ cls_exception = NoException
    /\ cls_verdict = "unset"
    /\ BackoffIdle
    /\ FilterIdle
    /\ FirstCall
    /\ WriteIdle
    /\ FirstRun
    /\ AnalyseIdle
    /\ an_inactive = FALSE
    /\ ListConstructed
    /\ ls_pc = "start"
    /\ ls_kind \in {"messages", "query"}
    /\ ls_query \in BOOLEAN
    \* get_query_message_ids does not ask for resultSizeEstimate
    /\ ls_chain \in Chains(IF ls_kind = "messages" THEN BOOLEAN ELSE {FALSE})
    /\ msg_cache_exists \in (IF ls_kind = "messages" THEN BOOLEAN ELSE {FALSE})
    /\ msg_cache_valid \in (IF msg_cache_exists THEN BOOLEAN ELSE {TRUE})
    /\ msg_cache_age \in (IF msg_cache_exists THEN MessagesAges ELSE {0})
    /\ msg_cached \in (IF msg_cache_exists /\ msg_cache_valid THEN {<<>>, <<1>>}
                       ELSE {<<>>})

\* get_messages up to its first list call
GetMessages(force) ==
    /\ ls_pc = "start"
    /\ ls_kind = "messages"
    /\ ls_force' = force
    /\ LET fresh == /\ ~force
                    /\ msg_cache_exists
                    /\ messages_fresh(msg_cache_age)
       IN  IF fresh /\ msg_cache_valid
           THEN \* return the pickled list
                /\ ls_pc' = "done"
                /\ ls_exit' = "cache"
                /\ ls_result' = msg_cached
                /\ UNCHANGED <<ls_token, ls_exception>>
           ELSE IF fresh
           THEN \* pickle.load raises on a file it cannot read
                /\ ls_pc' = "raised"
                /\ ls_exit' = "raised"
                /\ ls_exception' = OtherError("UnpicklingError")
                /\ UNCHANGED <<ls_token, ls_result>>
           ELSE /\ ls_pc' = "listing"
                /\ ls_token' = 1
                /\ UNCHANGED <<ls_exit, ls_result, ls_exception>>
    /\ UNCHANGED <<ls_kind, ls_query, ls_chain, ls_attempt, ls_messages,
                   ls_requests, ls_ids, msg_cache_vars, run_vars, cls_vars, bo_vars, flt_vars, reuse_vars, wr_vars, runs_vars, an_vars>>

\* get_query_message_ids up to its first list call
GetQueryMessageIds ==
    /\ ls_pc = "start"
    /\ ls_kind = "query"
    /\ IF ~ls_query
       THEN \* return None
            /\ ls_pc' = "done"
            /\ ls_exit' = "no_query"
            /\ UNCHANGED ls_token
       ELSE /\ ls_pc' = "listing"
            /\ ls_token' = 1
            /\ UNCHANGED ls_exit
    /\ UNCHANGED <<ls_kind, ls_query, ls_force, ls_chain, ls_attempt, ls_messages,
                   ls_requests, ls_result, ls_ids, ls_exception, msg_cache_vars,
                   run_vars, cls_vars, bo_vars, flt_vars, reuse_vars, wr_vars, runs_vars, an_vars>>

\* one invocation of list(...).execute through _execute_with_backoff, and
\* what follows the answer up to the next list call or the return
ListPage ==
    /\ ls_pc = "listing"
    /\ \E e \in {NoException} \cup ApiErrors :
          LET turn == execute_with_backoff(e, ls_attempt)
              response == ls_chain[ls_token]
              first == ls_token = 1
              \* response["resultSizeEstimate"], response["messages"]
              key_error ==
                  \/ first /\ ls_kind = "messages" /\ ~response.has_estimate
                  \/ ~first /\ ~response.has_messages
              extended == IF response.has_messages
                          THEN ls_messages \o response.items ELSE ls_messages
              \* "nextPageToken" in response
              more == ls_token < Len(ls_chain)
              returns == turn = "return" /\ ~key_error /\ ~more
          IN  /\ ls_attempt' = IF turn = "retry" THEN ls_attempt + 1 ELSE 0
              /\ ls_requests' = IF turn = "return" THEN Append(ls_requests, ls_token)
                                ELSE ls_requests
              /\ ls_exception' = IF turn = "raise" THEN e
                                 ELSE IF turn = "return" /\ key_error
                                 THEN OtherError("KeyError")
                                 ELSE ls_exception
              /\ ls_pc' = IF turn = "raise" \/ (turn = "return" /\ key_error)
                          THEN "raised"
                          ELSE IF returns THEN "done" ELSE "listing"
              /\ ls_exit' = IF turn = "raise" \/ (turn = "return" /\ key_error)
                            THEN "raised"
                            ELSE IF returns THEN "listed" ELSE ls_exit
              /\ ls_messages' = IF turn = "return" /\ ~key_error THEN extended
                                ELSE ls_messages
              /\ ls_token' = IF turn = "return" /\ ~key_error /\ more
                             THEN ls_token + 1 ELSE ls_token
              /\ ls_result' = IF returns /\ ls_kind = "messages" THEN extended
                              ELSE ls_result
              /\ ls_ids' = IF returns /\ ls_kind = "query" THEN Range(extended)
                           ELSE ls_ids
              /\ IF returns /\ ls_kind = "messages"
                 THEN \* pickle.dump(messages) into the messages cache
                      /\ msg_cache_exists' = TRUE
                      /\ msg_cache_valid' = TRUE
                      /\ msg_cache_age' = 0
                      /\ msg_cached' = extended
                 ELSE UNCHANGED msg_cache_vars
    /\ UNCHANGED <<ls_kind, ls_query, ls_force, ls_chain, run_vars, cls_vars, bo_vars, flt_vars, reuse_vars, wr_vars, runs_vars, an_vars>>

NextList ==
    \/ \E force \in BOOLEAN : GetMessages(force)
    \/ GetQueryMessageIds
    \/ ListPage

SpecList == InitList /\ [][NextList]_vars

(***************************************************************************)
(* One Processor called again after a call has returned or raised: only    *)
(* __init__ empties messagesQueue and failedMessagesQueue, so the next     *)
(* call begins with what the last one left.  The long lists are fetched by *)
(* a first call only.                                                      *)
(***************************************************************************)
Again ==
    /\ pc \in {"done", "raised"}
    /\ calls + 1 < MaxCalls
    /\ calls' = calls + 1
    /\ held' = messagesQueue
    /\ pc' = "start"
    /\ force_refresh' = FALSE
    /\ messages' = <<>>
    /\ batches' = <<>>
    /\ attempt' = 0
    /\ retry_round' = 0
    /\ failed_ids' = <<>>
    /\ exception' = NoException
    /\ exit' = "none"
    /\ invocations' = 0
    /\ last_batch' = <<>>
    /\ batch_sizes' = <<>>
    /\ rounds' = 0
    /\ warnings' = <<>>
    /\ notice' = "none"
    /\ failed_at_entry' = <<>>
    /\ given' = <<>>
    /\ UNCHANGED <<max_retry_rounds, messagesQueue, failedMessagesQueue,
                   cache_exists, cached, cache_valid, cache_age, scenario_b,
                   common_faults, cls_vars, bo_vars, ls_vars, msg_cache_vars,
                   flt_vars, wr_vars, runs_vars, an_vars>>

NextReuse ==
    \/ \E refs \in Refs, force \in BOOLEAN :
          /\ refs \in LongRefs => ~cache_exists /\ ~force /\ calls = 0
          /\ GetMetadata(refs, force)
    \/ FetchBatch
    \/ RoundStart
    \/ RoundLoopExit
    \/ RetryBatch
    \/ LoadCachedMetadata
    \/ Again

SpecReuse == Init /\ [][NextReuse]_vars

(***************************************************************************)
(* The program run again after get_metadata has returned: a new process    *)
(* and a new Processor with the same max_retry_rounds, beside the cache    *)
(* file the run before left, which has aged by then.  The following run    *)
(* is given the refs of the run before, without force_refresh; the first   *)
(* run is given any short list.                                            *)
(***************************************************************************)
NextRun ==
    /\ pc = "done"
    /\ exit \in {"cached", "loop", "stagnation", "batch_failed"}
    /\ run < MaxRuns
    /\ run' = run + 1
    /\ prev' = [refs |-> given, result |-> messagesQueue]
    /\ cache_age' \in MetadataAges
    /\ pc' = "start"
    /\ messagesQueue' = <<>>
    /\ failedMessagesQueue' = <<>>
    /\ force_refresh' = FALSE
    /\ messages' = <<>>
    /\ batches' = <<>>
    /\ attempt' = 0
    /\ retry_round' = 0
    /\ failed_ids' = <<>>
    /\ exception' = NoException
    /\ exit' = "none"
    /\ invocations' = 0
    /\ last_batch' = <<>>
    /\ batch_sizes' = <<>>
    /\ rounds' = 0
    /\ warnings' = <<>>
    /\ scenario_b' = TRUE
    /\ common_faults' = 0
    /\ notice' = "none"
    /\ failed_at_entry' = <<>>
    /\ given' = <<>>
    /\ UNCHANGED <<max_retry_rounds, cache_exists, cached, cache_valid,
                   cls_vars, bo_vars, ls_vars, msg_cache_vars, flt_vars,
                   reuse_vars, wr_vars, an_vars>>

NextRuns ==
    \/ \E refs \in Arrangements(1..MaxIds), force \in BOOLEAN :
          /\ run > 1 => refs = prev.refs /\ ~force
          /\ GetMetadata(refs, force)
    \/ FetchBatch
    \/ RoundStart
    \/ RoundLoopExit
    \/ RetryBatch
    \/ NextRun

SpecRuns == Init /\ [][NextRuns]_vars

(***************************************************************************)
(* Processor.load_cached_metadata on its own, called on a Processor that   *)
(* holds what an earlier call left in messagesQueue, whatever the cache    *)
(* file is by then.                                                        *)
(***************************************************************************)
InitLoad ==
    /\ pc = "start"
    /\ \E arg \in RoundArgs : max_retry_rounds = InitMaxRetryRounds(arg)
    /\ messagesQueue \in Arrangements(1..MaxIds)
    /\ failedMessagesQueue = <<>>
    /\ cache_exists \in BOOLEAN
    /\ cache_valid \in (IF cache_exists THEN BOOLEAN ELSE {TRUE})
    /\ cache_age \in (IF cache_exists THEN MetadataAges ELSE {0})
    /\ cached \in (IF cache_exists /\ cache_valid THEN Arrangements(1..MaxCached)
                   ELSE {<<>>})
    /\ notice = "none"
    /\ force_refresh = FALSE
    /\ messages = <<>>
    /\ batches = <<>>
    /\ attempt = 0
    /\ retry_round = 0
    /\ failed_ids = <<>>
    /\ exception = NoException
    /\ exit = "none"
    /\ invocations = 0
    /\ last_batch = <<>>
    /\ batch_sizes = <<>>
    /\ rounds = 0
    /\ warnings = <<>>
    /\ scenario_b = TRUE
    /\ common_faults = 0
    /\ failed_at_entry = <<>>
    /\ given = <<>>
    /\ cls_exception = NoException
    /\ cls_verdict = "unset"
    /\ BackoffIdle
    /\ ListIdle
    /\ FilterIdle
    /\ calls = 1
    /\ held = messagesQueue
    /\ WriteIdle
    /\ FirstRun
    /\ AnalyseIdle
    /\ an_inactive = FALSE

SpecLoad == InitLoad /\ [][LoadCachedMetadata]_vars

(***************************************************************************)
(* Processor.filter_messages_queue on its own, applied once and again to   *)
(* a collection that an earlier fetch or load has left in messagesQueue.   *)
(***************************************************************************)
\* a slip: "if not message_ids: return" for the empty set as for None
filter_messages_queue_empty_as_none(queue, message_ids) ==
    IF message_ids.none \/ message_ids.ids = {} THEN queue
    ELSE SelectSeq(queue, LAMBDA message : message \in message_ids.ids)

\* Processor.filter_messages_queue: the new value of messagesQueue
filter_messages_queue(queue, message_ids) ==
    IF message_ids.none THEN queue
    ELSE IF message_ids.ids = {} THEN <<>>
    ELSE SelectSeq(queue, LAMBDA message : message \in message_ids.ids)

InitFilter ==
    /\ pc = "done"
    /\ max_retry_rounds = InitMaxRetryRounds(NoInt)
    /\ messagesQueue \in SeqsUpTo(1..(MaxIds + 1), MaxQueueLen)
    /\ failedMessagesQueue = <<>>
    /\ cache_exists = FALSE
    /\ cached = <<>>
    /\ cache_valid = TRUE
    /\ cache_age = 0
    /\ notice = "none"
    /\ force_refresh = FALSE
    /\ messages = <<>>
    /\ batches = <<>>
    /\ attempt = 0
    /\ retry_round = 0
    /\ failed_ids = <<>>
    /\ exception = NoException
    /\ exit = "none"
    /\ invocations = 0
    /\ last_batch = <<>>
    /\ batch_sizes = <<>>
    /\ rounds = 0
    /\ warnings = <<>>
    /\ scenario_b = TRUE
    /\ common_faults = 0
    /\ failed_at_entry = <<>>
    /\ given = <<>>
    /\ cls_exception = NoException
    /\ cls_verdict = "unset"
    /\ BackoffIdle
    /\ ListIdle
    /\ flt_in = messagesQueue
    /\ flt_ids \in {NoIds} \cup {Ids(S) : S \in SUBSET (1..(MaxIds + 1))}
    /\ flt_count = 0
    /\ FirstCall
    /\ WriteIdle
    /\ FirstRun
    /\ AnalyseIdle
    /\ an_inactive = FALSE

FilterMessagesQueue ==
    /\ flt_count < 2
    /\ flt_count' = flt_count + 1
    /\ messagesQueue' = filter_messages_queue(messagesQueue, flt_ids)
    /\ UNCHANGED <<flt_in, flt_ids, pc, max_retry_rounds, failedMessagesQueue,
                   cache_exists, cached, cache_valid, cache_age, notice,
                   force_refresh, messages, batches, attempt, retry_round,
                   failed_ids, exception, exit, invocations, last_batch,
                   batch_sizes, rounds, warnings, scenario_b, common_faults,
                   failed_at_entry, given,
                   cls_vars, bo_vars, ls_vars, msg_cache_vars, reuse_vars, wr_vars, runs_vars, an_vars>>

SpecFilter == InitFilter /\ [][FilterMessagesQueue]_vars

(***************************************************************************)
(* The cache write of get_metadata (and of get_messages, which is written  *)
(* the same way) step by step, with a crash of the process at any point:   *)
(*     with open(cache_file, "wb") as token:                               *)
(*         pickle.dump(self.messagesQueue, token)                          *)
(* open(..., "wb") truncates the file in place; pickle.dump writes through *)
(* the buffered file, which passes its bytes on whenever its buffer fills; *)
(* leaving the with block flushes the rest and closes.  A file cut short   *)
(* is one pickle.load cannot read.                                         *)
(***************************************************************************)
InitWrite ==
    /\ pc = "write"
    /\ \E arg \in RoundArgs : max_retry_rounds = InitMaxRetryRounds(arg)
    /\ messagesQueue \in Arrangements(1..MaxIds)
    /\ failedMessagesQueue = <<>>
    /\ cache_exists \in BOOLEAN
    /\ cache_valid \in (IF cache_exists THEN BOOLEAN ELSE {TRUE})
    /\ cache_age \in (IF cache_exists THEN MetadataAges ELSE {0})
    /\ cached \in (IF cache_exists /\ cache_valid THEN Arrangements(1..MaxCached)
                   ELSE {<<>>})
    /\ notice = "none"
    /\ force_refresh = FALSE
    /\ messages = <<>>
    /\ batches = <<>>
    /\ attempt = 0
    /\ retry_round = 0
    /\ failed_ids = <<>>
    /\ exception = NoException
    /\ exit = "none"
    /\ invocations = 0
    /\ last_batch = <<>>
    /\ batch_sizes = <<>>
    /\ rounds = 0
    /\ warnings = <<>>
    /\ scenario_b = TRUE
    /\ common_faults = 0
    /\ failed_at_entry = <<>>
    /\ given = <<>>
    /\ cls_exception = NoException
    /\ cls_verdict = "unset"
    /\ BackoffIdle
    /\ ListIdle
    /\ FilterIdle
    /\ FirstCall
    /\ wr_pc = "idle"
    /\ wr_old = File(cache_exists, cache_valid, cached)
    /\ wr_new = messagesQueue
    /\ wr_written = 0
    /\ FirstRun
    /\ AnalyseIdle
    /\ an_inactive = FALSE

\* what the steps of a cache write leave alone
write_frame ==
    <<pc, max_retry_rounds, messagesQueue, failedMessagesQueue, notice,
      force_refresh, messages, batches, attempt, retry_round, failed_ids,
      exception, exit, invocations, last_batch, batch_sizes, rounds, warnings,
      scenario_b, common_faults, cls_vars, bo_vars, ls_vars, msg_cache_vars,
      flt_vars, reuse_vars, wr_old, wr_new, failed_at_entry, given, runs_vars, an_vars>>

\* open(cache_file, "wb"): the file is there and empty
OpenCache ==
    /\ wr_pc = "idle"
    /\ wr_pc' = "open"
    /\ cache_exists' = TRUE
    /\ cache_valid' = FALSE
    /\ cached' = <<>>
    /\ cache_age' = 0
    /\ UNCHANGED <<wr_written, write_frame>>

\* pickle.dump, as far as the next record: part of the pickle is in the file
DumpRecord ==
    /\ wr_pc = "open"
    /\ wr_written < Len(wr_new)
    /\ wr_written' = wr_written + 1
    /\ cached' = SubSeq(wr_new, 1, wr_written + 1)
    /\ UNCHANGED <<wr_pc, cache_exists, cache_valid, cache_age, write_frame>>

\* the end of the with block: the whole pickle is in the file
CloseCache ==
    /\ wr_pc = "open"
    /\ wr_pc' = "closed"
    /\ wr_written' = Len(wr_new)
    /\ cached' = wr_new
    /\ cache_valid' = TRUE
    /\ UNCHANGED <<cache_exists, cache_age, write_frame>>

\* the process dies; the file stays as it is
Crash ==
    /\ wr_pc \in {"idle", "open"}
    /\ wr_pc' = "crashed"
    /\ UNCHANGED <<wr_written, cache_exists, cache_valid, cached, cache_age,
                   write_frame>>

NextWrite ==
    \/ OpenCache
    \/ DumpRecord
    \/ CloseCache
    \/ Crash

SpecWrite == InitWrite /\ [][NextWrite]_vars

(***************************************************************************)
(* Metrics.start in analyze-only mode: load_cached_metadata, then          *)
(* Metrics.analyse.  The main thread submits one task per stage to a       *)
(* ThreadPoolExecutor and polls                                            *)
(*     while not event.isSet() and future.running():                       *)
(* before it goes on to the next stage; the pool has a worker for every    *)
(* task, so a task submitted may start at any time.  A future is running   *)
(* from the moment a worker takes it up to the moment its call returns or  *)
(* raises: not while it waits in the queue.  Each step below is one        *)
(* thread's; the steps interleave in any order.  A turn of the poll loop   *)
(* that finds its condition true changes nothing.                          *)
(***************************************************************************)
analyse_frame ==
    <<run_vars, cls_vars, bo_vars, ls_vars, msg_cache_vars, flt_vars,
      reuse_vars, wr_vars, runs_vars>>

\* future.running() of the task of stage i
running(i) == an_task[i] \in {"running", "computing", "event_set", "assigned"}

\* main thread: executor.submit of the stage's task; the last stage only
\* if inactive_days is positive
Submit(inactive) ==
    /\ pc = "done"
    /\ exit = "loaded"
    /\ an_pc = "submit"
    /\ IF Tasks[an_stage] = "_analyze_inactive_senders"
       THEN /\ an_inactive' = inactive
            /\ an_pc' = IF inactive THEN "poll" ELSE "shutdown"
            /\ an_task' = IF inactive THEN [an_task EXCEPT ![an_stage] = "pending"]
                          ELSE an_task
       ELSE /\ ~inactive
            /\ an_pc' = "poll"
            /\ an_task' = [an_task EXCEPT ![an_stage] = "pending"]
            /\ UNCHANGED an_inactive
    /\ UNCHANGED <<an_stage, an_event, an_table, an_read, analyse_frame>>

\* main thread: the condition of the poll loop is false, on to the next stage
PollExit ==
    /\ an_pc = "poll"
    /\ ~(~an_event[an_stage] /\ running(an_stage))
    /\ IF an_stage < Len(Tasks)
       THEN /\ an_stage' = an_stage + 1
            /\ an_pc' = "submit"
       ELSE /\ an_pc' = "shutdown"
            /\ UNCHANGED an_stage
    /\ UNCHANGED <<an_inactive, an_task, an_event, an_table, an_read, analyse_frame>>

\* main thread: the with block is left once every task has ended
Shutdown ==
    /\ an_pc = "shutdown"
    /\ \A i \in DOMAIN Tasks : an_task[i] \in {"none", "finished", "failed"}
    /\ an_pc' = "done"
    /\ UNCHANGED <<an_stage, an_inactive, an_task, an_event, an_table, an_read,
                   analyse_frame>>

\* a worker takes up the task of stage i
WorkerStart(i) ==
    /\ an_task[i] = "pending"
    /\ an_task' = [an_task EXCEPT ![i] = "running"]
    /\ UNCHANGED <<an_pc, an_stage, an_inactive, an_event, an_table, an_read,
                   analyse_frame>>

\* _load_table: the table is built, event.set()
LoadSetEvent ==
    /\ an_task[1] = "running"
    /\ an_task' = [an_task EXCEPT ![1] = "event_set"]
    /\ an_event' = [an_event EXCEPT ![1] = TRUE]
    /\ UNCHANGED <<an_pc, an_stage, an_inactive, an_table, an_read, analyse_frame>>

\* _load_table: self.table = table
LoadAssign ==
    /\ an_task[1] = "event_set"
    /\ an_task' = [an_task EXCEPT ![1] = "assigned"]
    /\ an_table' = TRUE
    /\ UNCHANGED <<an_pc, an_stage, an_inactive, an_event, an_read, analyse_frame>>

\* _load_table: return
LoadReturn ==
    /\ an_task[1] = "assigned"
    /\ an_task' = [an_task EXCEPT ![1] = "finished"]
    /\ UNCHANGED <<an_pc, an_stage, an_inactive, an_event, an_table, an_read,
                   analyse_frame>>

\* an _analyze_ task: its first statement reads self.table; on None the
\* method call on it raises AttributeError and the task ends, its event unset
AnalyzeRead(i) ==
    /\ i > 1
    /\ an_task[i] = "running"
    /\ an_read' = [an_read EXCEPT ![i] = IF an_table THEN "table" ELSE "None"]
    /\ an_task' = [an_task EXCEPT ![i] = IF an_table THEN "computing" ELSE "failed"]
    /\ UNCHANGED <<an_pc, an_stage, an_inactive, an_event, an_table, analyse_frame>>

\* an _analyze_ task: the figures are computed from the table, event.set()
AnalyzeSetEvent(i) ==
    /\ i > 1
    /\ an_task[i] = "computing"
    /\ an_task' = [an_task EXCEPT ![i] = "event_set"]
    /\ an_event' = [an_event EXCEPT ![i] = TRUE]
    /\ UNCHANGED <<an_pc, an_stage, an_inactive, an_table, an_read, analyse_frame>>

\* an _analyze_ task: return
AnalyzeReturn(i) ==
    /\ i > 1
    /\ an_task[i] = "event_set"
    /\ an_task' = [an_task EXCEPT ![i] = "finished"]
    /\ UNCHANGED <<an_pc, an_stage, an_inactive, an_event, an_table, an_read,
                   analyse_frame>>

NextAnalyse ==
    \/ LoadCachedMetadata
    \/ \E inactive \in BOOLEAN : Submit(inactive)
    \/ PollExit
    \/ Shutdown
    \/ \E i \in DOMAIN Tasks : WorkerStart(i)
    \/ LoadSetEvent
    \/ LoadAssign
    \/ LoadReturn
    \/ \E i \in DOMAIN Tasks : AnalyzeRead(i)
    \/ \E i \in DOMAIN Tasks : AnalyzeSetEvent(i)
    \/ \E i \in DOMAIN Tasks : AnalyzeReturn(i)

SpecAnalyse == Init /\ [][NextAnalyse]_vars

(***************************************************************************)
(* The properties.                                                         *)
(***************************************************************************)

\* C1: _should_retry answers retryable exactly for an HttpError of status 429,
\* 500 or 503, or of status 403 whose body names the reason rateLimitExceeded
\* or userRateLimitExceeded; every other error (403 with another or no reason,
\* another status, no status, not an HttpError) is permanent.
C1_ClassifyRule ==
    cls_verdict # "unset" =>
        /\ cls_verdict \in {"retryable", "permanent"}
        /\ cls_verdict = "retryable" <=>
              /\ cls_exception.type = "HttpError"
              /\ \/ cls_exception.status \in {429, 500, 503}
                 \/ /\ cls_exception.status = 403
                    /\ cls_exception.content = "reason"
                    /\ cls_exception.reason \in {"rateLimitExceeded", "userRateLimitExceeded"}

\* a 403 that names a rate limit has been classified
C1_Witness ==
    /\ cls_verdict = "retryable"
    /\ cls_exception.status = 403
    /\ cls_exception.reason = "userRateLimitExceeded"

\* C2: with a limit of N > 0 rounds, _retry_failed_messages starts at most N
\* rounds (snapshot, clear, sleep, refetch), whatever the API answers.
C2_AtMostNRounds ==
    ~max_retry_rounds.none =>
        /\ max_retry_rounds.n > 0
        /\ rounds <= max_retry_rounds.n
        /\ retry_round <= max_retry_rounds.n

\* the loop has ended on its limit with ids still failed
C2_Witness ==
    /\ ~max_retry_rounds.none
    /\ pc = "done"
    /\ exit = "loop"
    /\ rounds = max_retry_rounds.n
    /\ failedMessagesQueue # <<>>

\* C3: when a round has ended with at least as many failed ids as it took in
\* its snapshot, the loop has stopped on the spot, whatever the limit (none
\* included): no further round starts and the ids stay in the failed queue.
C3_Stagnation ==
    (/\ rounds >= 1
     /\ pc \in {"rounds", "done"}
     /\ Len(failedMessagesQueue) >= Len(failed_ids)) =>
        /\ pc = "done"
        /\ exit = "stagnation"
        /\ failedMessagesQueue # <<>>
        /\ retry_round = rounds

\* stagnation has stopped a loop that had no limit
C3_Witness ==
    /\ max_retry_rounds.none
    /\ pc = "done"
    /\ exit = "stagnation"
    /\ Len(failedMessagesQueue) = Len(failed_ids)

C5_ScenarioB ==
    (/\ pc = "done"
     /\ max_retry_rounds = Int_(5)
     /\ rounds >= 1
     /\ scenario_b) =>
        /\ rounds = 4
        /\ failedMessagesQueue = <<>>
        /\ Range(failed_ids) \subseteq Range(messagesQueue)

\* C6: an id whose sub-request failed with a permanent error is from then on
\* in neither messagesQueue nor the failed queue nor the snapshot a later
\* round takes, is warned about once, and is in no batch sent afterwards.
C6_PermanentDrop ==
    [][/\ \A id \in Range(warnings') :
             /\ id \notin Range(messagesQueue')
             /\ id \notin Range(failedMessagesQueue')
             /\ failed_ids' # failed_ids => id \notin Range(failed_ids')
             /\ Cardinality({i \in 1..Len(warnings') : warnings'[i] = id}) = 1
       /\ \A id \in Range(warnings) : id \notin Range(last_batch')
       /\ \A i \in 1..Len(warnings) : warnings'[i] = warnings[i]]_vars

\* an id was dropped in the initial pass and a retry round ran after it
C6_Witness ==
    /\ pc = "done"
    /\ rounds >= 1
    /\ warnings = <<1>>
    /\ messagesQueue = <<2>>

\* C7: no two records of messagesQueue share an id, also when the refs
\* listed carry an id twice.
C7_UniqueIds ==
    NoDup(messagesQueue)

\* C8: at the end of a retry round no id is both in the failed queue and in
\* messagesQueue.
C8_Disjoint ==
    (retry_round >= 1 /\ pc \in {"rounds", "done"}) =>
        Range(failedMessagesQueue) \cap Range(messagesQueue) = {}

\* a round has ended that fetched one of its ids and failed on another
C8_Witness ==
    /\ pc = "rounds"
    /\ retry_round >= 1
    /\ failedMessagesQueue # <<>>
    /\ Range(failed_ids) \cap Range(messagesQueue) # {}

\* the k-th group of 100 of the refs to fetch
C9_Group(k) ==
    SubSeq(messages, 100 * (k - 1) + 1, Min(100 * k, Len(messages)))

\* the initial pass is over
C9_PassOver ==
    \/ pc \in {"rounds", "retry"}
    \/ pc = "done" /\ exit \in {"loop", "stagnation", "batch_failed"}

\* what C9 says of a state
C9_Groups ==
    /\ \A k \in 1..Len(batch_sizes) : batch_sizes[k] = Len(C9_Group(k))
    /\ \A k \in 1..Len(batch_sizes) :
          batch_sizes[k] = 100 \/ (k = Len(batch_sizes) /\ batch_sizes[k] \in 1..99)
    /\ C9_PassOver =>
          /\ 100 * Len(batch_sizes) >= Len(messages)
          /\ 100 * Len(batch_sizes) < Len(messages) + 100
    /\ (C9_PassOver /\ Len(messages) = 250) => batch_sizes = <<100, 100, 50>>
    /\ (/\ pc = "done"
        /\ exit = "loop"
        /\ rounds = 0
        /\ warnings = <<>>
        /\ failedMessagesQueue = <<>>) =>
          /\ Len(messagesQueue) >= Len(messages)
          /\ SubSeq(messagesQueue, Len(messagesQueue) - Len(messages) + 1,
                    Len(messagesQueue)) = messages
          /\ \A id \in Range(messages) :
                Cardinality({i \in 1..Len(messagesQueue) : messagesQueue[i] = id}) = 1

\* C9: get_metadata cuts the refs to fetch into consecutive groups of 100,
\* the last one possibly smaller; each call of the pass carries the ids of
\* its group, one sub-request each, and a call that succeeds at once is
\* followed by the next group, each id having reached its callback once; 250
\* refs make 3 batches of 100, 100 and 50, and when every sub-request
\* succeeds messagesQueue holds each id once.
C9_Partition ==
    [][/\ C9_Groups'
       /\ (pc = "pass" /\ pc' # "raised") =>
             last_batch' = C9_Group(Len(batch_sizes'))
       /\ (pc = "pass" /\ attempt = 0 /\ attempt' = 0 /\ pc' # "raised") =>
             /\ Len(batch_sizes') = Len(batch_sizes) + 1
             /\ batches' = Tail(batches)
             /\ Len(messagesQueue') + Len(failedMessagesQueue') + Len(warnings')
                   = Len(messagesQueue) + Len(failedMessagesQueue) + Len(warnings)
                        + Len(last_batch')]_vars

\* scenario A: 250 refs fetched in 3 batches, every sub-request a success
C9_Witness ==
    /\ Len(messages) = 250
    /\ pc = "done"
    /\ exit = "loop"
    /\ rounds = 0
    /\ batch_sizes = <<100, 100, 50>>
    /\ messagesQueue = messages

\* C10, as stated: _execute_with_backoff invokes one call at most 5 times.
C10_AtMostFiveInvocations ==
    invocations <= 5

\* C10, amended: _execute_with_backoff invokes one call at most 6 times, a
\* first attempt and at most 5 retries; when the 6th invocation fails with a
\* retryable error, the error is raised to the caller and the call is not
\* invoked again.
C10_AtMostSixInvocations ==
    /\ invocations <= 6
    /\ attempt <= 5
    /\ attempt > 0 => invocations = attempt /\ pc \in {"pass", "retry"}
    /\ invocations = 6 =>
          /\ attempt = 0
          /\ pc # "pass"
          /\ rounds = 0 =>
                (pc = "raised" /\ exit = "raised" /\ exception.type = "HttpError")

\* a call of the initial pass has failed 6 times with a retryable error
C10_Witness ==
    /\ invocations = 6
    /\ pc = "raised"
    /\ should_retry(exception)

\* C11: no delay slept, by a call's backoff or by the round loop's, is longer
\* than 66 seconds (the cap of 60 and a jitter of a tenth of it), whatever
\* the attempt or round index and the jitter drawn.
C11_DelayAtMost66 ==
    \A i \in 1..Len(bo_slept) :
        /\ bo_slept[i] <= 66 * Seconds
        /\ bo_slept[i] >= Seconds

\* a round slept the full 66 seconds
C11_Witness ==
    /\ bo_kind = "round"
    /\ \E i \in 1..Len(bo_slept) : bo_slept[i] = 66 * Seconds

\* C12, as stated: of two delays slept, the one of the earlier attempt is not
\* the longer, whatever the jitter drawn, the cap reached or not.
C12_NonDecreasing ==
    \A i, j \in 1..Len(bo_slept) : i < j => bo_slept[i] <= bo_slept[j]

\* C12, amended: of two delays slept, the one of the earlier attempt is not
\* the longer unless both have their base delay at the cap of 60 seconds,
\* where each is between 60 and 66 seconds; within one call, whose 5 sleeps
\* stay below the cap, the delays never decrease.
C12_NonDecreasingBelowCap ==
    /\ \A i, j \in 1..Len(bo_slept) :
          i < j => \/ bo_slept[i] <= bo_slept[j]
                   \/ /\ bo_slept[i] \in (60 * Seconds)..(66 * Seconds)
                      /\ bo_slept[j] \in (60 * Seconds)..(66 * Seconds)
                      /\ i >= 7
    /\ bo_kind = "call" =>
          /\ Len(bo_slept) <= 5
          /\ \A i, j \in 1..Len(bo_slept) : i < j => bo_slept[i] <= bo_slept[j]

\* two rounds at the cap, the later one with the shorter sleep
C12_Witness ==
    /\ bo_kind = "round"
    /\ Len(bo_slept) >= 8
    /\ bo_slept[7] > bo_slept[8]

\* C13: a get_metadata without force_refresh that finds a readable cache
\* file, fresh or stale, sends no sub-request for an id of that file; its
\* collection is the file's records followed by records fetched for the
\* other refs, which is what it writes back; with no ref left to fetch it
\* returns at once, no batched call made.
C13_ResumeFromCache ==
    [][(/\ cache_exists
        /\ cache_valid
        /\ ~force_refresh'
        /\ exit' \notin {"loaded", "absent"}) =>
          /\ Range(last_batch') \cap Range(cached) = {}
          /\ Range(messages') \cap Range(cached) = {}
          /\ Len(messagesQueue') >= Len(cached)
          /\ SubSeq(messagesQueue', 1, Len(cached)) = cached
          /\ \A i \in (Len(cached) + 1)..Len(messagesQueue') :
                messagesQueue'[i] \in Range(messages')
          /\ notice' = IF cache_age < 86400 THEN "cache" ELSE "stale"
          /\ (pc = "start" /\ messages' = <<>>) =>
                /\ pc' = "done"
                /\ exit' = "cached"
                /\ messagesQueue' = cached
                /\ invocations' = 0
                /\ batch_sizes' = <<>>
                /\ last_batch' = <<>>
                /\ UNCHANGED <<cache_exists, cached, cache_valid, cache_age>>
          /\ (pc' = "done" /\ exit' # "cached") =>
                cached' = messagesQueue']_vars

\* a run resumed from a stale file holding id 1 has fetched id 2 only
C13_Witness ==
    /\ pc = "done"
    /\ exit = "loop"
    /\ ~force_refresh
    /\ notice = "stale"
    /\ messages = <<2>>
    /\ batch_sizes = <<1>>
    /\ messagesQueue = <<1, 2>>
    /\ cached = <<1, 2>>

\* C14: get_messages takes a readable messages cache file for fresh exactly
\* while its age is below 86400 s: without force_refresh a file of age
\* 86399 s is returned and no list call is made; a file of age 86400 s or
\* more (86401 s) is not read, the listing is made in full and the file is
\* overwritten with what was listed.
C14_Freshness ==
    [][/\ (ls_pc = "start" /\ ls_kind = "messages" /\ msg_cache_exists
           /\ msg_cache_valid /\ ~ls_force') =>
             IF msg_cache_age < 86400
             THEN /\ ls_pc' = "done"
                  /\ ls_exit' = "cache"
                  /\ ls_result' = msg_cached
                  /\ ls_requests' = <<>>
                  /\ UNCHANGED msg_cache_vars
             ELSE /\ ls_pc' = "listing"
                  /\ ls_exit' = "none"
       /\ (ls_kind = "messages" /\ ls_exit' = "cache") =>
             (msg_cache_age \in {0, 86399} /\ ~ls_force')
       /\ (ls_kind = "messages" /\ ls_pc = "listing" /\ ls_pc' = "done") =>
             /\ ls_requests' = [k \in 1..Len(ls_chain) |-> k]
             /\ msg_cache_exists'
             /\ msg_cache_valid'
             /\ msg_cache_age' = 0
             /\ msg_cached' = ls_result'
             /\ msg_cached' = ls_messages']_vars

\* a file one second short of the TTL has been returned without a list call
C14_Witness ==
    /\ ls_kind = "messages"
    /\ ls_pc = "done"
    /\ ls_exit = "cache"
    /\ ~ls_force
    /\ msg_cache_age = 86399
    /\ ls_result = <<1>>
    /\ ls_requests = <<>>

\* C17: get_messages does not fail on a messages cache file that pickle.load
\* cannot read; it goes on as without a file and lists from the API.
C17_CorruptIsMiss ==
    (/\ ls_kind = "messages"
     /\ ls_pc # "start"
     /\ ~msg_cache_valid) =>
        /\ ls_exception.type # "UnpicklingError"
        /\ ls_exit # "cache"
        /\ ls_token >= 1

\* the items of the pages of a chain, in page order
RECURSIVE C18_Items(_)
C18_Items(chain) ==
    IF chain = <<>> THEN <<>>
    ELSE C18_Items(SubSeq(chain, 1, Len(chain) - 1)) \o chain[Len(chain)].items

\* C18: a listing asks for each page of the chain once and in order, stops at
\* the first response without nextPageToken and returns the items of all
\* pages in page order; a page without items, or a first response without a
\* size estimate, adds nothing and does not abort the listing.
C18_ListAll ==
    /\ ls_requests = [k \in 1..Len(ls_requests) |-> k]
    /\ Len(ls_requests) <= Len(ls_chain)
    /\ ls_exception.type # "KeyError"
    /\ (ls_pc = "done" /\ ls_exit = "listed") =>
          /\ Len(ls_requests) = Len(ls_chain)
          /\ ls_messages = C18_Items(ls_chain)
          /\ ls_kind = "messages" => ls_result = C18_Items(ls_chain)
          /\ ls_kind = "query" => ls_ids = Range(C18_Items(ls_chain))

\* C19: filter_messages_queue leaves in messagesQueue exactly the records
\* whose id is in message_ids, as many times and in the order they were
\* there; an empty set leaves none; None leaves the collection as it was;
\* a second application changes nothing.
C19_Filter ==
    flt_count >= 1 =>
        IF flt_ids.none THEN messagesQueue = flt_in
        ELSE LET keep == {i \in 1..Len(flt_in) : flt_in[i] \in flt_ids.ids}
             IN  /\ Len(messagesQueue) = Cardinality(keep)
                 /\ \E f \in [1..Len(messagesQueue) -> keep] :
                       /\ \A a, b \in 1..Len(messagesQueue) : a < b => f[a] < f[b]
                       /\ \A a \in 1..Len(messagesQueue) : messagesQueue[a] = flt_in[f[a]]
                 /\ flt_ids.ids = {} => messagesQueue = <<>>

\* a filter applied twice has kept the two records of id 2 and dropped id 1
C19_Witness ==
    /\ flt_count = 2
    /\ flt_in = <<2, 1, 2>>
    /\ flt_ids = Ids({2, 3})
    /\ messagesQueue = <<2, 2>>

\* C15: when get_metadata(refs, force_refresh = True) has returned, the
\* collection and the cache file written from it hold only records fetched
\* during this call: ids of refs, none more often than refs were fetched,
\* and nothing that was cached or held in memory before.
C15_ForcedRefreshStartsEmpty ==
    (pc = "done" /\ force_refresh) =>
        /\ Range(messagesQueue) \subseteq Range(messages)
        /\ Len(messagesQueue) <= Len(messages)
        /\ cache_exists /\ cache_valid
        /\ cached = messagesQueue

\* C20: load_cached_metadata makes no remote call (no batch invocation, no
\* list request); without a metadata cache file it returns False without
\* raising and leaves messagesQueue as it was; with a file it loads its
\* content into messagesQueue whatever the file's age; the cache file is
\* left as it was.
C20_CacheOnly ==
    [][(pc = "start" /\ exit' \in {"absent", "loaded"}) =>
          /\ invocations' = invocations
          /\ batch_sizes' = batch_sizes
          /\ last_batch' = last_batch
          /\ rounds' = rounds
          /\ ls_requests' = ls_requests
          /\ ls_pc' = ls_pc
          /\ pc' = "done"
          /\ exception' = exception
          /\ (exit' = "absent") = ~cache_exists
          /\ exit' = "absent" => messagesQueue' = messagesQueue
          /\ exit' = "loaded" => messagesQueue' = cached
          /\ UNCHANGED <<cache_exists, cached, cache_valid, cache_age>>]_vars

\* a stale file has been loaded over the collection an earlier call had
\* left, without any remote call
C20_Witness ==
    /\ exit = "loaded"
    /\ cache_age = CACHE_TTL_SECONDS
    /\ held = <<2, 1>>
    /\ cached = <<1>>
    /\ messagesQueue = cached
    /\ invocations = 0

\* C16: after a crash at any point of a cache write the cache file holds
\* either all of what it held before the write or all of the collection
\* being written; a file that pickle could read is never left cut short.
C16_AtomicWrite ==
    wr_pc = "crashed" =>
        \/ File(cache_exists, cache_valid, cached) = wr_old
        \/ File(cache_exists, cache_valid, cached) = File(TRUE, TRUE, wr_new)

\* C21: in the initial pass of get_metadata a batched call that fails with
\* a permanent error, or with a transient one on the attempt after the last
\* retry, ends get_metadata with that error raised; nothing follows it: no
\* later batch, no retry round; and the metadata cache file is what it was
\* when the call began.
C21_FatalBatchFailure ==
    /\ [][/\ (pc = "pass" /\ pc' = "raised" /\ exception'.type = "HttpError") =>
              /\ (~should_retry(exception') \/ attempt = MAX_RETRIES)
              /\ (should_retry(exception') => invocations' = MAX_RETRIES + 1)
              /\ exit' = "raised"
              /\ UNCHANGED <<batches, rounds, messagesQueue, failedMessagesQueue>>
          /\ (pc = "pass" /\ exception'.type = "HttpError") => pc' = "raised"
          /\ pc \in {"start", "pass"} =>
              UNCHANGED <<cache_exists, cached, cache_valid, cache_age>>
          /\ pc = "raised" => UNCHANGED vars]_vars
    /\ [](pc = "raised" /\ exception.type = "HttpError" =>
             /\ rounds = 0
             /\ batches # <<>>
             /\ last_batch = Head(batches))

\* a transient failure of the whole call, raised after the sixth invocation
\* of the first batch, beside a stale cache file that still holds record 1
C21_Witness ==
    /\ pc = "raised"
    /\ should_retry(exception)
    /\ invocations = 6
    /\ force_refresh
    /\ cache_exists
    /\ cached = <<1>>
    /\ cache_age = CACHE_TTL_SECONDS
    /\ messages = <<1, 2>>
    /\ messagesQueue = <<>>

\* C22: whatever the API answers and whatever max_retry_rounds is, None
\* (no limit) included, _retry_failed_messages comes to an end; it runs at
\* most as many rounds as failedMessagesQueue held ids when it began, since
\* a round that is followed by another starts from a smaller snapshot than
\* the one before.
C22_RoundsTerminate ==
    /\ [](rounds <= Len(failed_at_entry))
    /\ [][(pc = "rounds" /\ pc' = "retry" /\ rounds >= 1) =>
              Len(failed_ids') < Len(failed_ids)]_vars
    /\ [](pc \in {"rounds", "retry"} => <>(pc \in {"done", "raised"}))

\* with no limit on the rounds, two failed ids have taken two rounds
C22_Witness ==
    /\ pc = "done"
    /\ max_retry_rounds.none
    /\ Len(failed_at_entry) = 2
    /\ rounds = 2

\* C23: when a retry round is over, every id of its snapshot is in exactly
\* one of three places: messagesQueue, the new failedMessagesQueue, or the
\* ids dropped with a warning; so also the ids of a batch whose call failed
\* as a whole, and of the batches after it, which are to stay in
\* failedMessagesQueue.
C23_NoIdLost ==
    (pc \in {"rounds", "done"} /\ rounds >= 1) =>
        \A id \in Range(failed_ids) :
            Cardinality({place \in {messagesQueue, failedMessagesQueue, warnings} :
                            id \in Range(place)}) = 1

\* C24: when get_metadata has returned, the metadata cache file holds
\* exactly messagesQueue, the records of the retry rounds included; the
\* following run, given the same refs without force_refresh, loads those
\* records and makes sub-requests only for the ids of refs that the run
\* before returned without.
C24_RoundTrip ==
    /\ []((pc = "done" /\ exit \in {"cached", "loop", "stagnation", "batch_failed"}) =>
             /\ cache_exists /\ cache_valid
             /\ cached = messagesQueue)
    /\ [][(run > 1 /\ pc = "start" /\ pc' # "start") =>
              /\ given' = prev.refs
              /\ messagesQueue' = prev.result
              /\ messages' = SelectSeq(prev.refs,
                                       LAMBDA id : id \notin Range(prev.result))
              /\ pc' = "done" <=> messages' = <<>>]_vars
    /\ [](run > 1 =>
             /\ Range(last_batch) \subseteq Range(prev.refs) \ Range(prev.result)
             /\ \A i \in 1..Len(batches) :
                   Range(batches[i]) \subseteq Range(prev.refs) \ Range(prev.result)
             /\ pc # "start" =>
                   \A i \in 1..Len(prev.result) : messagesQueue[i] = prev.result[i])

\* the run before was given ids 2 and 1 and returned with the record of 1
\* only; the following run, beside the file now stale, has loaded it and
\* asks for id 2 alone
C24_Witness ==
    /\ run = 2
    /\ prev = [refs |-> <<2, 1>>, result |-> <<1>>]
    /\ cache_age = CACHE_TTL_SECONDS
    /\ pc = "pass"
    /\ messagesQueue = <<1>>
    /\ last_batch = <<2>>
    /\ invocations = 1

\* C25: in Metrics.analyse, however the main thread and the workers
\* interleave, no _analyze_ task reads self.table before _load_table has
\* assigned it, and a stage's task is submitted only when the task of the
\* stage before has ended.
C25_StageOrdering ==
    /\ \A i \in DOMAIN Tasks : an_read[i] # "None"
    /\ \A i \in DOMAIN Tasks :
          (i > 1 /\ an_task[i] # "none") => an_task[i - 1] \in {"finished", "failed"}

====
